---- MODULE Spec2Model ----
(***************************************************************************)
(* Envoy proxy plugin: discovery of per-service route/cluster fragments    *)
(* (ConfigDiscover), their merge into a base document (Compiler), and the  *)
(* plugin run that chains both and writes the output (EnvoyProxyPlugin).   *)
(*                                                                         *)
(* Values of the JavaScript heap are modelled as tagged records:           *)
(*   [tag |-> "null"]                 null                                 *)
(*   [tag |-> "absent"]               undefined / a missing property       *)
(*   [tag |-> "list", items |-> s]    an array holding the sequence s      *)
(*   [tag |-> "obj", ...]             an object                            *)
(* A thrown exception ends the running call: pc = "thrown" and error holds *)
(* the kind of failure.                                                    *)
(***************************************************************************)
EXTENDS Integers, Sequences, FiniteSets, TLC

VARIABLES
    pc,             \* position of the running call:
                    \*   collect(): "collect", "collected"
                    \*   build():   "loop", "merge", "done"
                    \*   execute(): "start", then the calls above, "returned"
                    \*   "thrown" once an exception has left the call
    error,          \* "none", or the failure that was thrown
    \* Compiler
    store,          \* Compiler.store: the base document, mutated in place, or null
    serviceConfigs, \* Compiler.serviceConfigs: the fragments given to the constructor
    configBase,     \* the constructor's configBase argument, as it was when passed
    i,              \* build(): index of the fragment the for-of loop is at
    j,              \* mergeConfig(): index of the cluster the for-of loop is at
    mergeCalls,     \* number of mergeConfig invocations made by build()
    originalRoutes, \* the array that was in the route slot before the last
                    \* addRoute that passed its condition, as a reference
                    \* kept to it shows it now; absent before such a call
    \* ConfigDiscover
    fsys,             \* the file system discovery reads: directories and YAML files
    folderPaths,      \* ConfigDiscover.folderPaths
    configFolderName, \* ConfigDiscover.configFolderName
    services,         \* collect(): the services array it builds and returns
    fpIndex,          \* collect(): index of the folder path the for-of loop is at
    baseConfigPath,   \* ConfigDiscover.baseConfigPath
    \* EnvoyProxyPlugin
    request,          \* execute(): the request body it was called with
    options,          \* execute(): the Options it parsed, null before that
    result,           \* execute(): the result field it returned, absent before that
    \* Compiler, the variant that rebuilds the document (unnamed/part_000)
    vpc,            \* position of the variant's build(): "idle" when it is not
                    \* run, else "loop", "merge", "done", "thrown"
    vError,         \* "none", or the failure the variant's build() threw
    vStore,         \* the variant's Compiler.store
    vBase,          \* the object the caller passed to the variant as
                    \* configBase, as a reference kept to it shows it now
    vi,             \* the variant's build(): index of the fragment the loop is at
    vj              \* the variant's mergeConfig(): index of the cluster the loop is at

compilerVars == <<store, serviceConfigs, configBase, i, j, mergeCalls, originalRoutes>>

discoverVars == <<fsys, folderPaths, configFolderName, services, fpIndex, baseConfigPath>>

pluginVars == <<request, options, result>>

variantVars == <<vpc, vError, vStore, vBase, vi, vj>>

vars == <<pc, error, compilerVars, discoverVars, pluginVars, variantVars>>

----------------------------------------------------------------------------
(* JavaScript values *)

Null == [tag |-> "null"]

Absent == [tag |-> "absent"]

List(s) == [tag |-> "list", items |-> s]

\* JavaScript truthiness of a property value: undefined and null are falsy,
\* arrays (also empty ones) and objects are truthy.
Truthy(v) == v.tag # "absent" /\ v.tag # "null"

\* The element Array.prototype.concat appends for a non-array argument.
Undefined == Absent

----------------------------------------------------------------------------
(* Bounds and input domains *)

\* Largest number of service fragments handed to the compiler.
MaxFrags == 2

\* config-types Cluster: identified by name; type stands for the rest of the record.
Cluster(n, t) == [name |-> n, type |-> t]

\* config-types Route: an opaque record without a key; owner tells whose route
\* it is and prefix stands for its matcher and action.
Route(owner, prefix) == [tag |-> "route", owner |-> owner, prefix |-> prefix]

\* Cluster lists of the base document: empty, one, two distinct names, a repeated name.
BaseClusterLists ==
    { <<>>,
      <<Cluster("x", "t0")>>,
      <<Cluster("x", "t0"), Cluster("y", "t0")>>,
      <<Cluster("x", "t0"), Cluster("x", "t3")>> }

BaseRouteLists == { <<>>, <<Route("base", "/health")>> }

\* Cluster lists of a fragment: new and colliding names, a name listed twice.
FragClusterLists ==
    { <<>>,
      <<Cluster("x", "t1")>>,
      <<Cluster("x", "t2")>>,
      <<Cluster("y", "t1")>>,
      <<Cluster("x", "t1"), Cluster("y", "t2")>>,
      <<Cluster("y", "t2"), Cluster("x", "t2")>>,
      <<Cluster("x", "t1"), Cluster("x", "t2")>> }

FragRouteLists ==
    { <<>>, <<Route("svc", "/ra")>>, <<Route("svc", "/rb"), Route("svc", "/ra")>> }

\* config-types ServiceConfg.
ServiceConfg(c, r) == [tag |-> "obj", clusters |-> c, routes |-> r]

\* Fragments as the type declares them, and the shapes a caller or a test can
\* pass past the type checker: both lists undefined, or only routes undefined.
WellFormedFrags ==
    { ServiceConfg(List(c), List(r)) : c \in FragClusterLists, r \in FragRouteLists }

MalformedFrag == ServiceConfg(Absent, Absent)

NoRoutesFrag == ServiceConfg(List(<<Cluster("y", "t1")>>), Absent)

Frags == WellFormedFrags \cup {MalformedFrag, NoRoutesFrag}

RECURSIVE SeqsUpTo(_, _)
SeqsUpTo(S, n) ==
    IF n = 0 THEN { <<>> }
    ELSE LET shorter == SeqsUpTo(S, n - 1)
         IN  shorter \cup { Append(s, e) : s \in { t \in shorter : Len(t) = n - 1 }, e \in S }

----------------------------------------------------------------------------
(* The base document (config-types EnvoyConfig) *)

VirtualHost(nm, routes) == [tag |-> "obj", name |-> nm, routes |-> routes]

RouteConfig(vhs) == [tag |-> "obj", name |-> "local_route", virtual_hosts |-> vhs]

TypedConfig(rc) == [tag |-> "obj", route_config |-> rc]

Filter(nm, tc) == [tag |-> "obj", name |-> nm, typed_config |-> tc]

FilterChain(fs) == [tag |-> "obj", filters |-> fs]

Listener(nm, fcs) == [tag |-> "obj", name |-> nm, filter_chains |-> fcs]

EnvoyConfig(ls, cs) ==
    [tag |-> "doc", static_resources |-> [listeners |-> ls, clusters |-> cs]]

\* Parts of a document beside the first listener / chain / filter / virtual host.
OtherVirtualHost == VirtualHost("vh2", List(<<Route("base", "/other")>>))

OtherFilter == Filter("f2", Absent)

OtherFilterChain == FilterChain(List(<<>>))

OtherListener ==
    Listener("listener_2",
        List(<<FilterChain(List(<<Filter("f3",
            TypedConfig(RouteConfig(List(<<VirtualHost("vh3", List(<<Route("base", "/admin")>>))>>))))>>))>>))

\* The levels of static_resources.listeners[0].filter_chains[0].filters[0]
\* .typed_config.route_config.virtual_hosts[0].routes at which a document can stop.
UnresolvedKinds ==
    { "listeners_absent", "listeners_empty", "filter_chains_absent",
      "filter_chains_empty", "filters_absent", "filters_empty",
      "typed_config_absent", "route_config_absent", "virtual_hosts_absent",
      "virtual_hosts_empty", "routes_absent" }

VirtualHostsOf(kind, routes) ==
    CASE kind = "virtual_hosts_absent" -> Absent
      [] kind = "virtual_hosts_empty"  -> List(<<>>)
      [] kind = "routes_absent"        -> List(<<VirtualHost("vh1", Absent), OtherVirtualHost>>)
      [] OTHER                         -> List(<<VirtualHost("vh1", List(routes)), OtherVirtualHost>>)

TypedConfigOf(kind, routes) ==
    CASE kind = "typed_config_absent" -> Absent
      [] kind = "route_config_absent" -> TypedConfig(Absent)
      [] OTHER                        -> TypedConfig(RouteConfig(VirtualHostsOf(kind, routes)))

FiltersOf(kind, routes) ==
    CASE kind = "filters_absent" -> Absent
      [] kind = "filters_empty"  -> List(<<>>)
      [] OTHER                   -> List(<<Filter("hcm", TypedConfigOf(kind, routes)), OtherFilter>>)

FilterChainsOf(kind, routes) ==
    CASE kind = "filter_chains_absent" -> Absent
      [] kind = "filter_chains_empty"  -> List(<<>>)
      [] OTHER                         -> List(<<FilterChain(FiltersOf(kind, routes)), OtherFilterChain>>)

ListenersOf(kind, routes) ==
    CASE kind = "listeners_absent" -> Absent
      [] kind = "listeners_empty"  -> List(<<>>)
      [] OTHER                     -> List(<<Listener("listener_1", FilterChainsOf(kind, routes)), OtherListener>>)

MkBase(kind, clusters, routes) == EnvoyConfig(ListenersOf(kind, routes), clusters)

\* Base documents: fully resolved ones over all cluster and route lists, one
\* document per level at which the path stops, and a null base.
BaseDocs ==
    { MkBase("resolved", c, r) : c \in BaseClusterLists, r \in BaseRouteLists }
    \cup { MkBase(k, <<Cluster("x", "t0")>>, <<Route("base", "/health")>>) : k \in UnresolvedKinds }
    \cup { Null }

----------------------------------------------------------------------------
(* Compiler (src/config-compiler/compiler.ts) *)

\* Array.prototype.findIndex over the cluster list: the 0-based index of the
\* first entry with newCluster's name, or -1.
FindIndex(clusters, newCluster) ==
    LET hits == { n \in 1..Len(clusters) : newCluster.name = clusters[n].name }
    IN  IF hits = {} THEN -1
        ELSE (CHOOSE n \in hits : \A m \in hits : n <= m) - 1

\* Mutant of MergeCluster: the index test is lost and every cluster is pushed.
MergeClusterAlwaysPush(clusters, newCluster) == Append(clusters, newCluster)

\* Mutant of MergeCluster: an entry found under the name is kept, not overwritten.
MergeClusterKeepFirst(clusters, newCluster) ==
    IF FindIndex(clusters, newCluster) = -1
    THEN Append(clusters, newCluster)
    ELSE clusters

\* Mutant of MergeCluster: an entry found under the name is taken out and the
\* new one is pushed at the end.
MergeClusterMoveToEnd(clusters, newCluster) ==
    LET hasCluster == FindIndex(clusters, newCluster)
    IN  IF hasCluster = -1
        THEN Append(clusters, newCluster)
        ELSE Append(SubSeq(clusters, 1, hasCluster)
                        \o SubSeq(clusters, hasCluster + 2, Len(clusters)),
                    newCluster)

\* One turn of mergeConfig's cluster loop: push when the name is new, else
\* overwrite the entry found.
MergeCluster(clusters, newCluster) ==
    LET hasCluster == FindIndex(clusters, newCluster)
    IN  IF hasCluster = -1
        THEN Append(clusters, newCluster)
        ELSE [clusters EXCEPT ![hasCluster + 1] = newCluster]

\* for (const newCluster of service.clusters): undefined is not iterable.
ClustersIterable(service) == service.clusters.tag = "list"

\* The argument of concat: an array is spread, anything else is appended as
\* one element.
ConcatArg(routesToAdd) ==
    IF routesToAdd.tag = "list" THEN routesToAdd.items ELSE <<Undefined>>

FirstListener(s) == s.static_resources.listeners.items[1]

FirstFilterChain(s) == FirstListener(s).filter_chains.items[1]

FirstFilter(s) == FirstFilterChain(s).filters.items[1]

FirstVirtualHost(s) ==
    FirstFilter(s).typed_config.route_config.virtual_hosts.items[1]

\* addRoute's condition, read left to right from listeners.length on; the
\* listeners property itself is dereferenced without a test.
AddRouteGuard(s) ==
    /\ s # Null
    /\ Len(s.static_resources.listeners.items) > 0
    /\ Truthy(FirstListener(s).filter_chains)
    /\ Len(FirstListener(s).filter_chains.items) > 0
    /\ Truthy(FirstFilterChain(s).filters)
    /\ Len(FirstFilterChain(s).filters.items) > 0
    /\ Truthy(FirstFilter(s).typed_config)
    /\ Truthy(FirstFilter(s).typed_config.route_config)
    /\ Truthy(FirstFilter(s).typed_config.route_config.virtual_hosts)
    /\ Len(FirstFilter(s).typed_config.route_config.virtual_hosts.items) > 0

\* The document has a static_resources mapping; a scalar document has none.
HasStaticResources(s) == s.tag = "doc"

\* The TypeError addRoute raises: listeners of an undefined static_resources,
\* listeners.length of an undefined listeners, or routes.concat of an
\* undefined routes once the condition has passed.
AddRouteError(s) ==
    IF s = Null THEN "none"
    ELSE IF ~HasStaticResources(s) THEN "TypeError: static_resources.listeners"
    ELSE IF ~Truthy(s.static_resources.listeners) THEN "TypeError: listeners.length"
    ELSE IF AddRouteGuard(s) /\ ~Truthy(FirstVirtualHost(s).routes)
         THEN "TypeError: routes.concat"
    ELSE "none"

\* Mutant of ConcatKeepsReceiver: the entries are pushed into the array that
\* is in the slot.
ConcatPushesIntoReceiver(routes, routesToAdd) ==
    List(routes.items \o ConcatArg(routesToAdd))

\* What routes.concat(routesToAdd) leaves of the array it is called on: the
\* array keeps its entries, the result being a new one.
ConcatKeepsReceiver(routes, routesToAdd) == routes

\* Mutant of ConcatKeepsArg: the entries are moved out of the array passed in.
ConcatDrainsArg(routesToAdd) ==
    IF routesToAdd.tag = "list" THEN List(<<>>) ELSE routesToAdd

\* What routes.concat(routesToAdd) leaves of its argument: concat builds a
\* new array and the one passed in stays as it was.
ConcatKeepsArg(routesToAdd) == routesToAdd

\* Mutant of AddRoute: the virtual host list is rebuilt around the first
\* virtual host alone, the others being lost.
AddRouteDropsOthers(s, routesToAdd) ==
    IF AddRouteGuard(s)
    THEN [s EXCEPT !.static_resources.listeners.items[1].filter_chains.items[1]
                    .filters.items[1].typed_config.route_config.virtual_hosts =
                        List(<<[@.items[1] EXCEPT !.routes =
                                   List(@.items \o ConcatArg(routesToAdd))]>>)]
    ELSE s

\* Mutant of AddRoute: the concatenated list is computed and dropped.
AddRouteDiscard(s, routesToAdd) == s

\* addRoute: rebinds the route slot of the first virtual host to the old list
\* followed by routesToAdd; anything else is left as it is.
AddRoute(s, routesToAdd) ==
    IF AddRouteGuard(s)
    THEN [s EXCEPT !.static_resources.listeners.items[1].filter_chains.items[1]
                    .filters.items[1].typed_config.route_config.virtual_hosts
                    .items[1].routes = List(@.items \o ConcatArg(routesToAdd))]
    ELSE s

\* Mutant of CallerBase: the constructor keeps a copy, the caller's object
\* staying as it was passed.
CallerBaseCopied(s, passed) == passed

\* constructor: this.store = configBase. The store is the caller's object
\* itself, so what the caller holds after the call is the store.
CallerBase(s, passed) == s

\* Mutant of ForOfNext: the loop passes over every second fragment.
ForOfSkips(n) == n + 2

\* for (const s of this.serviceConfigs): the loop moves to the next element.
ForOfNext(n) == n + 1

\* Mutant of BuildGuard: build() without its null test.
BuildGuardMissing(s) == FALSE

\* build(): if (!this.store) return;
BuildGuard(s) == s = Null

\* Mutant of MergeConfigEntry: a fragment without a cluster list is skipped.
MergeConfigEntrySkip(s, service) ==
    IF s = Null \/ ~ClustersIterable(service) THEN "return" ELSE "loop"

\* How mergeConfig(service) starts: it returns at once on a null store,
\* throws when service.clusters is not iterable, and else runs its cluster loop.
MergeConfigEntry(s, service) ==
    IF s = Null THEN "return"
    ELSE IF ~ClustersIterable(service) THEN "throw"
    ELSE "loop"

\* A compiler built directly from a base document and fragments: no discovery
\* has run and there is no file system to read.
NoDiscovery ==
    /\ fsys = [dirs |-> {}, files |-> {}]
    /\ folderPaths = <<>>
    /\ configFolderName = <<"envoy">>
    /\ services = <<>>
    /\ fpIndex = 1
    /\ baseConfigPath = <<>>

\* No plugin run is under way: the class is used on its own.
NoPlugin ==
    /\ request = Null
    /\ options = Null
    /\ result = Absent

\* The rebuilding variant of the compiler is not run.
NoVariant ==
    /\ vpc = "idle"
    /\ vError = "none"
    /\ vStore = Null
    /\ vBase = Null
    /\ vi = 1
    /\ vj = 1

InitCompiler ==
    /\ configBase \in BaseDocs
    /\ store = configBase
    /\ serviceConfigs \in SeqsUpTo(Frags, MaxFrags)
    /\ pc = "loop"
    /\ i = 1
    /\ j = 1
    /\ mergeCalls = 0
    /\ originalRoutes = Absent
    /\ error = "none"
    /\ NoDiscovery
    /\ NoPlugin
    /\ NoVariant

\* build(): the for-of loop is exhausted and build returns.
BuildDone ==
    /\ pc = "loop"
    /\ i > Len(serviceConfigs)
    /\ pc' = "done"
    /\ UNCHANGED <<store, serviceConfigs, configBase, i, j, mergeCalls, originalRoutes, error>>
    /\ UNCHANGED discoverVars
    /\ UNCHANGED pluginVars
    /\ UNCHANGED variantVars

\* build(): the store is null at the head of an iteration and build returns.
BuildReturnNull ==
    /\ pc = "loop"
    /\ i <= Len(serviceConfigs)
    /\ BuildGuard(store)
    /\ pc' = "done"
    /\ UNCHANGED <<store, serviceConfigs, configBase, i, j, mergeCalls, originalRoutes, error>>
    /\ UNCHANGED discoverVars
    /\ UNCHANGED pluginVars
    /\ UNCHANGED variantVars

\* build() calls mergeConfig(s): its null test, then the entry of the cluster
\* loop, which throws when service.clusters is not iterable.
BuildMergeConfig ==
    /\ pc = "loop"
    /\ i <= Len(serviceConfigs)
    /\ ~BuildGuard(store)
    /\ mergeCalls' = mergeCalls + 1
    /\ LET entry == MergeConfigEntry(store, serviceConfigs[i])
       IN  /\ pc' = CASE entry = "return" -> "loop"
                      [] entry = "throw"  -> "thrown"
                      [] OTHER            -> "merge"
           /\ i' = IF entry = "return" THEN ForOfNext(i) ELSE i
           /\ error' = IF entry = "throw" THEN "TypeError: service.clusters" ELSE error
    /\ j' = 1
    /\ UNCHANGED <<store, serviceConfigs, configBase, originalRoutes>>
    /\ UNCHANGED discoverVars
    /\ UNCHANGED pluginVars
    /\ UNCHANGED variantVars

\* mergeConfig(): one turn of the cluster loop; reading clusters of an
\* undefined static_resources throws.
MergeClusterStep ==
    /\ pc = "merge"
    /\ j <= Len(serviceConfigs[i].clusters.items)
    /\ IF HasStaticResources(store)
       THEN /\ store' = [store EXCEPT !.static_resources.clusters =
                            MergeCluster(@, serviceConfigs[i].clusters.items[j])]
            /\ j' = j + 1
            /\ UNCHANGED <<pc, error>>
       ELSE /\ pc' = "thrown"
            /\ error' = "TypeError: static_resources.clusters"
            /\ UNCHANGED <<store, j>>
    /\ UNCHANGED <<serviceConfigs, configBase, i, mergeCalls, originalRoutes>>
    /\ UNCHANGED discoverVars
    /\ UNCHANGED pluginVars
    /\ UNCHANGED variantVars

\* mergeConfig(): the cluster loop is over; addRoute(service.routes) runs and
\* mergeConfig returns to build's loop, or addRoute throws.
MergeAddRoute ==
    /\ pc = "merge"
    /\ j > Len(serviceConfigs[i].clusters.items)
    /\ IF AddRouteError(store) # "none"
       THEN /\ pc' = "thrown"
            /\ error' = AddRouteError(store)
            /\ UNCHANGED <<store, i, j>>
       ELSE /\ store' = AddRoute(store, serviceConfigs[i].routes)
            /\ pc' = "loop"
            /\ i' = ForOfNext(i)
            /\ j' = 1
            /\ error' = error
    /\ serviceConfigs' = IF AddRouteError(store) = "none" /\ AddRouteGuard(store)
                         THEN [serviceConfigs EXCEPT ![i].routes = ConcatKeepsArg(@)]
                         ELSE serviceConfigs
    /\ originalRoutes' = IF AddRouteError(store) = "none" /\ AddRouteGuard(store)
                         THEN ConcatKeepsReceiver(FirstVirtualHost(store).routes,
                                                  serviceConfigs[i].routes)
                         ELSE originalRoutes
    /\ UNCHANGED <<configBase, mergeCalls>>
    /\ UNCHANGED discoverVars
    /\ UNCHANGED pluginVars
    /\ UNCHANGED variantVars

\* getStore()
GetStore == store

NextCompiler ==
    \/ BuildDone
    \/ BuildReturnNull
    \/ BuildMergeConfig
    \/ MergeClusterStep
    \/ MergeAddRoute

SpecCompiler == InitCompiler /\ [][NextCompiler]_vars

----------------------------------------------------------------------------
(* Compiler, the variant that rebuilds the document (unnamed/part_000) *)

\* { ...value }: a new object with the own enumerable properties of value. Of
\* an array these are its indices, length not being one of them; undefined
\* and null have none.
SpreadObject(v) ==
    [tag |-> "obj", length |-> Absent,
     items |-> IF v.tag = "list" THEN v.items ELSE <<>>]

\* value.length > 0: the length of an array, and undefined > 0, which is
\* false, for an object without a length property.
LengthPositive(v) ==
    IF v.tag = "list" THEN Len(v.items) > 0
    ELSE v.length.tag = "number"

\* The condition getRouteArray and addRoute both test on their listeners
\* local, read left to right.
VariantGuard(listeners) ==
    /\ Truthy(listeners)
    /\ LengthPositive(listeners)
    /\ Truthy(listeners.items[1].filter_chains)
    /\ LengthPositive(listeners.items[1].filter_chains)
    /\ Truthy(listeners.items[1].filter_chains.items[1].filters)
    /\ LengthPositive(listeners.items[1].filter_chains.items[1].filters)
    /\ Truthy(listeners.items[1].filter_chains.items[1].filters.items[1].typed_config)
    /\ Truthy(listeners.items[1].filter_chains.items[1].filters.items[1]
                .typed_config.route_config)
    /\ Truthy(listeners.items[1].filter_chains.items[1].filters.items[1]
                .typed_config.route_config.virtual_hosts)
    /\ LengthPositive(listeners.items[1].filter_chains.items[1].filters.items[1]
                .typed_config.route_config.virtual_hosts)

\* getRouteArray: a copy of the first virtual host's routes when the path to
\* it resolves, else an empty array.
GetRouteArray(config) ==
    IF VariantGuard(config.static_resources.listeners)
    THEN FirstVirtualHost(config).routes.items
    ELSE <<>>

\* getRouteArray spreads the routes it found: [...undefined] throws.
GetRouteArrayThrows(config) ==
    /\ VariantGuard(config.static_resources.listeners)
    /\ FirstVirtualHost(config).routes.tag # "list"

\* The variant's addRoute: it tests its condition on a spread copy of the
\* listeners array, writes the routes followed by the new ones into the
\* first virtual host when the condition holds, and else returns a copy of
\* the document as it is.
VariantAddRoute(config, routes) ==
    LET listeners == SpreadObject(config.static_resources.listeners)
    IN  IF VariantGuard(listeners)
        THEN [config EXCEPT !.static_resources.listeners.items[1].filter_chains.items[1]
                    .filters.items[1].typed_config.route_config.virtual_hosts
                    .items[1].routes = List(@.items \o routes)]
        ELSE config

\* The variant's mergeConfig after its cluster loop: the failure it throws,
\* in getRouteArray or in spreading service.routes, or "none".
VariantRouteError(config, service) ==
    IF GetRouteArrayThrows(config) THEN "TypeError: routes is not iterable"
    ELSE IF service.routes.tag # "list" THEN "TypeError: service.routes is not iterable"
    ELSE "none"

\* Both compilers are constructed over equal base documents and the same
\* fragments, each holding its own base object.
InitVariant ==
    /\ configBase \in BaseDocs
    /\ store = configBase
    /\ serviceConfigs \in SeqsUpTo(Frags, MaxFrags)
    /\ pc = "loop"
    /\ i = 1
    /\ j = 1
    /\ mergeCalls = 0
    /\ originalRoutes = Absent
    /\ error = "none"
    /\ NoDiscovery
    /\ NoPlugin
    /\ vpc = "loop"
    /\ vError = "none"
    /\ vStore = configBase
    /\ vBase = configBase
    /\ vi = 1
    /\ vj = 1

\* The variant's build(): the loop is exhausted and the store is returned.
VariantBuildDone ==
    /\ vpc = "loop"
    /\ vi > Len(serviceConfigs)
    /\ vpc' = "done"
    /\ UNCHANGED <<vError, vStore, vBase, vi, vj>>
    /\ UNCHANGED <<pc, error, compilerVars, discoverVars, pluginVars>>

\* The variant's build(): the store is null at the head of an iteration and
\* build returns null.
VariantBuildReturnNull ==
    /\ vpc = "loop"
    /\ vi <= Len(serviceConfigs)
    /\ vStore = Null
    /\ vpc' = "done"
    /\ UNCHANGED <<vError, vStore, vBase, vi, vj>>
    /\ UNCHANGED <<pc, error, compilerVars, discoverVars, pluginVars>>

\* The variant's build() calls mergeConfig(this.store, s): the top level of
\* the base is copied and the cluster loop is entered, which throws when
\* service.clusters is not iterable.
VariantMergeConfig ==
    /\ vpc = "loop"
    /\ vi <= Len(serviceConfigs)
    /\ vStore # Null
    /\ IF ClustersIterable(serviceConfigs[vi])
       THEN /\ vpc' = "merge"
            /\ vError' = vError
       ELSE /\ vpc' = "thrown"
            /\ vError' = "TypeError: service.clusters"
    /\ vj' = 1
    /\ UNCHANGED <<vStore, vBase, vi>>
    /\ UNCHANGED <<pc, error, compilerVars, discoverVars, pluginVars>>

\* The variant's mergeConfig(): one turn of the cluster loop. The copy made
\* by { ...base } holds the static_resources object of the base, so the push
\* or the assignment is made on the cluster array the caller's base holds.
VariantMergeClusterStep ==
    /\ vpc = "merge"
    /\ vj <= Len(serviceConfigs[vi].clusters.items)
    /\ vStore' = [vStore EXCEPT !.static_resources.clusters =
                     MergeCluster(@, serviceConfigs[vi].clusters.items[vj])]
    /\ vBase' = [vBase EXCEPT !.static_resources.clusters =
                     MergeCluster(@, serviceConfigs[vi].clusters.items[vj])]
    /\ vj' = vj + 1
    /\ UNCHANGED <<vpc, vError, vi>>
    /\ UNCHANGED <<pc, error, compilerVars, discoverVars, pluginVars>>

\* The variant's mergeConfig(): the cluster loop is over; getRouteArray and
\* addRoute run and the document returned becomes the store, or one of the
\* spreads throws.
VariantMergeAddRoute ==
    /\ vpc = "merge"
    /\ vj > Len(serviceConfigs[vi].clusters.items)
    /\ IF VariantRouteError(vStore, serviceConfigs[vi]) # "none"
       THEN /\ vpc' = "thrown"
            /\ vError' = VariantRouteError(vStore, serviceConfigs[vi])
            /\ UNCHANGED <<vStore, vi, vj>>
       ELSE /\ vStore' = VariantAddRoute(vStore,
                             GetRouteArray(vStore) \o serviceConfigs[vi].routes.items)
            /\ vpc' = "loop"
            /\ vi' = vi + 1
            /\ vj' = 1
            /\ vError' = vError
    /\ UNCHANGED vBase
    /\ UNCHANGED <<pc, error, compilerVars, discoverVars, pluginVars>>

NextVariant ==
    \/ NextCompiler
    \/ VariantBuildDone
    \/ VariantBuildReturnNull
    \/ VariantMergeConfig
    \/ VariantMergeClusterStep
    \/ VariantMergeAddRoute

SpecVariant == InitVariant /\ [][NextVariant]_vars

----------------------------------------------------------------------------
(* The file system read by discovery *)

\* A file or folder name, split at its dots: "a.yaml" is <<"a", "yaml">>.
\* A path is the sequence of its names; path.join appends a name.
Join(path, name) == Append(path, name)

\* A directory with its entries in readdir order, a directory that cannot be
\* read (EACCES), and a YAML file with what yaml.load makes of it.
Entry(name, kind) == [name |-> name, kind |-> kind]

Dir(path, entries) == [path |-> path, tag |-> "dir", entries |-> entries]

DeniedDir(path) == [path |-> path, tag |-> "denied", entries |-> <<>>]

File(path, content) == [path |-> path, content |-> content]

\* What a fragment file holds: text that yaml.load rejects, a scalar document,
\* or a mapping whose routes / clusters keys hold a list, a scalar or nothing.
InvalidYaml == [tag |-> "invalid"]

ScalarYaml == [tag |-> "scalar"]

YamlDoc(routes, clusters) == [tag |-> "obj", routes |-> routes, clusters |-> clusters]

\* Largest number of service directories in ConfigDiscover.folderPaths.
MaxServices == 3

ServiceNames == {"svcA", "svcB", "svcC"}

ConfigFolderNames == { <<"envoy">>, <<"proxy-config">> }

\* What a service directory can look like on disk.
LayoutKinds ==
    { "missing",       \* the directory does not exist
      "denied",        \* the directory cannot be listed
      "no_subfolder",  \* no envoy folder; a plain file is named envoy
      "no_lists",      \* envoy/ without routes/ and clusters/
      "nothing_valid", \* envoy/routes holds only unusable files, envoy/clusters is empty
      "routes_only",   \* envoy/routes/a.yaml with two routes, no clusters/
      "full",          \* several route files, good and bad, and a cluster file
      "two_folders" }  \* envoy/ with clusters, proxy-config/ with a route

Layout(svc, kind) ==
    LET root     == <<<<svc>>>>
        envoy    == Join(root, <<"envoy">>)
        proxy    == Join(root, <<"proxy-config">>)
        routes   == Join(envoy, <<"routes">>)
        clusters == Join(envoy, <<"clusters">>)
    IN  CASE kind = "missing" -> [dirs |-> {}, files |-> {}]
          [] kind = "denied" -> [dirs |-> {DeniedDir(root)}, files |-> {}]
          [] kind = "no_subfolder" ->
                [dirs  |-> { Dir(root, <<Entry(<<"src">>, "dir"), Entry(<<"envoy">>, "file")>>),
                             Dir(Join(root, <<"src">>), <<>>) },
                 files |-> { File(envoy, YamlDoc(List(<<Route(svc, "/stray")>>), Absent)) }]
          [] kind = "no_lists" ->
                [dirs  |-> { Dir(root, <<Entry(<<"envoy">>, "dir")>>),
                             Dir(envoy, <<Entry(<<"readme", "md">>, "file")>>) },
                 files |-> {}]
          [] kind = "nothing_valid" ->
                [dirs  |-> { Dir(root, <<Entry(<<"envoy">>, "dir")>>),
                             Dir(envoy, <<Entry(<<"routes">>, "dir"), Entry(<<"clusters">>, "dir")>>),
                             Dir(routes, <<Entry(<<"bad", "yaml">>, "file"),
                                           Entry(<<"shape", "yaml">>, "file"),
                                           Entry(<<"empty", "yaml">>, "file"),
                                           Entry(<<"gone", "yaml">>, "file")>>),
                             Dir(clusters, <<>>) },
                 files |-> { File(Join(routes, <<"bad", "yaml">>), InvalidYaml),
                             File(Join(routes, <<"shape", "yaml">>), YamlDoc(ScalarYaml, Absent)),
                             File(Join(routes, <<"empty", "yaml">>), YamlDoc(List(<<>>), Absent)) }]
          [] kind = "routes_only" ->
                [dirs  |-> { Dir(root, <<Entry(<<"envoy">>, "dir"), Entry(<<"src">>, "dir")>>),
                             Dir(envoy, <<Entry(<<"routes">>, "dir")>>),
                             Dir(routes, <<Entry(<<"a", "yaml">>, "file")>>) },
                 files |-> { File(Join(routes, <<"a", "yaml">>),
                                  YamlDoc(List(<<Route(svc, "/r1"), Route(svc, "/r2")>>), Absent)) }]
          [] kind = "full" ->
                [dirs  |-> { Dir(root, <<Entry(<<"envoy">>, "dir")>>),
                             Dir(envoy, <<Entry(<<"clusters">>, "dir"), Entry(<<"routes">>, "dir")>>),
                             Dir(routes, <<Entry(<<"b", "yaml">>, "file"),
                                           Entry(<<"bad", "yaml">>, "file"),
                                           Entry(<<"notes", "txt">>, "file"),
                                           Entry(<<"a", "yaml">>, "file"),
                                           Entry(<<"old", "yaml", "bak">>, "file"),
                                           Entry(<<"link", "yaml">>, "other"),
                                           Entry(<<"sub", "yaml">>, "dir"),
                                           Entry(<<"scalar", "yaml">>, "file")>>),
                             Dir(Join(routes, <<"sub", "yaml">>), <<>>),
                             Dir(clusters, <<Entry(<<"c", "yaml">>, "file")>>) },
                 files |-> { File(Join(routes, <<"b", "yaml">>), YamlDoc(List(<<Route(svc, "/r2")>>), Absent)),
                             File(Join(routes, <<"bad", "yaml">>), InvalidYaml),
                             File(Join(routes, <<"notes", "txt">>), YamlDoc(List(<<Route(svc, "/txt")>>), Absent)),
                             File(Join(routes, <<"a", "yaml">>),
                                  YamlDoc(List(<<Route(svc, "/r1"), Route(svc, "/r3"), Route(svc, "/r2")>>), Absent)),
                             File(Join(routes, <<"old", "yaml", "bak">>), YamlDoc(List(<<Route(svc, "/bak")>>), Absent)),
                             File(Join(routes, <<"link", "yaml">>), YamlDoc(List(<<Route(svc, "/link")>>), Absent)),
                             File(Join(routes, <<"scalar", "yaml">>), ScalarYaml),
                             File(Join(clusters, <<"c", "yaml">>),
                                  YamlDoc(Absent, List(<<Cluster("x", svc), Cluster(svc, "t1")>>))) }]
          [] kind = "two_folders" ->
                [dirs  |-> { Dir(root, <<Entry(<<"proxy-config">>, "dir"), Entry(<<"envoy">>, "dir")>>),
                             Dir(envoy, <<Entry(<<"clusters">>, "dir")>>),
                             Dir(clusters, <<Entry(<<"c", "yaml">>, "file")>>),
                             Dir(proxy, <<Entry(<<"routes">>, "dir")>>),
                             Dir(Join(proxy, <<"routes">>), <<Entry(<<"p", "yaml">>, "file")>>) },
                 files |-> { File(Join(clusters, <<"c", "yaml">>),
                                  YamlDoc(Absent, List(<<Cluster("y", svc)>>))),
                             File(Join(Join(proxy, <<"routes">>), <<"p", "yaml">>),
                                  YamlDoc(List(<<Route(svc, "/p")>>), Absent)) }]

\* The file system holding every service directory in the layout chosen for it.
MkFs(layoutOf) ==
    [dirs  |-> UNION { Layout(svc, layoutOf[svc]).dirs : svc \in ServiceNames },
     files |-> UNION { Layout(svc, layoutOf[svc]).files : svc \in ServiceNames }]

ServicePaths == { <<<<svc>>>> : svc \in ServiceNames }

----------------------------------------------------------------------------
(* FsTools.listDirContents and YamlTools.read_yaml *)

\* fs.readdirSync succeeds on an existing, readable directory.
CanReadDir(fs, dirPath) ==
    \E d \in fs.dirs : d.path = dirPath /\ d.tag = "dir"

ReadDirSync(fs, dirPath) ==
    (CHOOSE d \in fs.dirs : d.path = dirPath /\ d.tag = "dir").entries

\* The names of the entries of one kind, in listing order.
NamesOfKind(entries, kind) ==
    LET sel == SelectSeq(entries, LAMBDA e : e.kind = kind)
    IN  [n \in 1..Len(sel) |-> sel[n].name]

\* listDirContents: entries sorted into files and folders (an entry that is
\* neither is dropped), or null when reading the directory throws.
ListDirContents(fs, dirPath) ==
    IF CanReadDir(fs, dirPath)
    THEN [tag     |-> "obj",
          folders |-> NamesOfKind(ReadDirSync(fs, dirPath), "dir"),
          files   |-> NamesOfKind(ReadDirSync(fs, dirPath), "file")]
    ELSE Null

\* read_yaml: the parsed document, or null when the file cannot be read or
\* yaml.load throws.
ReadYaml(fs, filePath) ==
    IF \E f \in fs.files : f.path = filePath
    THEN LET content == (CHOOSE f \in fs.files : f.path = filePath).content
         IN  IF content.tag = "invalid" THEN Null ELSE content
    ELSE Null

----------------------------------------------------------------------------
(* ConfigDiscover (src/config-compiler/discover.ts, printed in README.md) *)

\* String.prototype.includes(".yaml") on a name split at its dots: some part
\* after the first is yaml.
IncludesYaml(name) == \E n \in 2..Len(name) : name[n] = "yaml"

\* doc[key] of a parsed document: undefined unless doc is a mapping.
Prop(doc, key) == IF doc.tag = "obj" THEN doc[key] ELSE Absent

\* readRouteYaml / readClusterYaml: the list under key, or [] when the file
\* gave nothing, has no such key or holds no array there.
ReadListYaml(fs, filePath, key) ==
    LET yamlFile == ReadYaml(fs, filePath)
    IN  IF Truthy(yamlFile) /\ Truthy(Prop(yamlFile, key)) /\ Prop(yamlFile, key).tag = "list"
        THEN Prop(yamlFile, key).items
        ELSE <<>>

\* Mutant of CollectFiles: a file that gives no entry ends the loop.
RECURSIVE CollectFilesStopsOnBad(_, _, _, _)
CollectFilesStopsOnBad(fs, folderPath, files, key) ==
    IF files = <<>> THEN <<>>
    ELSE IF ~IncludesYaml(Head(files))
         THEN CollectFilesStopsOnBad(fs, folderPath, Tail(files), key)
         ELSE IF ReadListYaml(fs, Join(folderPath, Head(files)), key) = <<>>
              THEN <<>>
              ELSE ReadListYaml(fs, Join(folderPath, Head(files)), key)
                   \o CollectFilesStopsOnBad(fs, folderPath, Tail(files), key)

\* Mutant of CollectFiles: the entries of a later file are put in front.
RECURSIVE CollectFilesReversed(_, _, _, _)
CollectFilesReversed(fs, folderPath, files, key) ==
    IF files = <<>> THEN <<>>
    ELSE CollectFilesReversed(fs, folderPath, Tail(files), key)
         \o (IF IncludesYaml(Head(files))
             THEN ReadListYaml(fs, Join(folderPath, Head(files)), key)
             ELSE <<>>)

\* The loop of getRoutes / getClusters over contents.files.
RECURSIVE CollectFiles(_, _, _, _)
CollectFiles(fs, folderPath, files, key) ==
    IF files = <<>> THEN <<>>
    ELSE (IF IncludesYaml(Head(files))
          THEN ReadListYaml(fs, Join(folderPath, Head(files)), key)
          ELSE <<>>)
         \o CollectFiles(fs, folderPath, Tail(files), key)

\* getRoutes / getClusters: the entries of every .yaml file of the folder.
GetList(fs, folderPath, key) ==
    LET contents == ListDirContents(fs, folderPath)
    IN  IF Truthy(contents)
        THEN CollectFiles(fs, folderPath, contents.files, key)
        ELSE <<>>

GetRoutes(fs, folderPath) == GetList(fs, folderPath, "routes")

GetClusters(fs, folderPath) == GetList(fs, folderPath, "clusters")

\* contents.folders.find((f) => f === this.configFolderName)
HasConfigFolder(contents, cfgName) ==
    \E n \in 1..Len(contents.folders) : contents.folders[n] = cfgName

\* Mutant of HasConfigs: the test for found configurations is lost.
HasConfigsAlways(configs) == TRUE

\* if (configs.routes.length > 0 || configs.clusters.length > 0)
HasConfigs(configs) ==
    Len(configs.routes.items) > 0 \/ Len(configs.clusters.items) > 0

\* Mutant of FindServiceConfigs: the final return hands back configs, not null.
FindServiceConfigsReturnsConfigs(fs, folderPath, cfgName) ==
    LET contents == ListDirContents(fs, folderPath)
    IN  IF Truthy(contents) /\ HasConfigFolder(contents, cfgName)
        THEN ServiceConfg(List(GetClusters(fs, Join(Join(folderPath, cfgName), <<"clusters">>))),
                          List(GetRoutes(fs, Join(Join(folderPath, cfgName), <<"routes">>))))
        ELSE ServiceConfg(List(<<>>), List(<<>>))

\* findServiceConfigs: the fragment of one service directory, or null.
FindServiceConfigs(fs, folderPath, cfgName) ==
    LET contents == ListDirContents(fs, folderPath)
    IN  IF Truthy(contents) /\ HasConfigFolder(contents, cfgName)
        THEN LET configPath == Join(folderPath, cfgName)
                 configs == ServiceConfg(List(GetClusters(fs, Join(configPath, <<"clusters">>))),
                                         List(GetRoutes(fs, Join(configPath, <<"routes">>))))
             IN  IF HasConfigs(configs) THEN configs ELSE Null
        ELSE Null

\* Mutant of CollectPush: the service is put at the front of the array.
CollectUnshift(found, service) ==
    IF Truthy(service) THEN <<service>> \o found ELSE found

\* if (service) services.push(service);
CollectPush(found, service) ==
    IF Truthy(service) THEN Append(found, service) ELSE found

\* A discovery over a file system, before any compiler exists.
NoCompiler ==
    /\ store = Null
    /\ configBase = Null
    /\ serviceConfigs = <<>>
    /\ i = 1
    /\ j = 1
    /\ mergeCalls = 0
    /\ originalRoutes = Absent

InitDiscover ==
    /\ \E layoutOf \in [ServiceNames -> LayoutKinds] : fsys = MkFs(layoutOf)
    /\ folderPaths \in SeqsUpTo(ServicePaths, MaxServices)
    /\ configFolderName \in ConfigFolderNames
    /\ services = <<>>
    /\ fpIndex = 1
    /\ pc = "collect"
    /\ error = "none"
    /\ baseConfigPath = <<>>
    /\ NoCompiler
    /\ NoPlugin
    /\ NoVariant

\* collect(): one turn of the loop over folderPaths.
CollectStep ==
    /\ pc = "collect"
    /\ fpIndex <= Len(folderPaths)
    /\ services' = CollectPush(services,
                       FindServiceConfigs(fsys, folderPaths[fpIndex], configFolderName))
    /\ fpIndex' = fpIndex + 1
    /\ UNCHANGED <<pc, error, fsys, folderPaths, configFolderName, baseConfigPath>>
    /\ UNCHANGED compilerVars
    /\ UNCHANGED pluginVars
    /\ UNCHANGED variantVars

\* collect(): the loop is over and services is returned.
CollectReturn ==
    /\ pc = "collect"
    /\ fpIndex > Len(folderPaths)
    /\ pc' = "collected"
    /\ UNCHANGED <<error, discoverVars>>
    /\ UNCHANGED compilerVars
    /\ UNCHANGED pluginVars
    /\ UNCHANGED variantVars

NextDiscover ==
    \/ CollectStep
    \/ CollectReturn

SpecDiscover == InitDiscover /\ [][NextDiscover]_vars

----------------------------------------------------------------------------
(* EnvoyProxyPlugin.execute (src/utils/yaml-tools.ts) and collectBase *)

\* Largest number of service directories in the items option of a request.
MaxItems == 2

\* Option values as the host passes them: a string, or something that is not.
Str(v) == [tag |-> "string", value |-> v]

Num == [tag |-> "number"]

OptionKeys == {"root-path", "base", "output", "folder-name", "items"}

\* request.options, an object with the five keys the loop of execute looks at.
RequestOptions(root, base, output, folder, items) ==
    [tag     |-> "obj",
     entries |-> [k \in OptionKeys |->
                     CASE k = "root-path"   -> root
                       [] k = "base"        -> base
                       [] k = "output"      -> output
                       [] k = "folder-name" -> folder
                       [] OTHER             -> items]]

Request(opts) == [tag |-> "obj", options |-> opts]

BasePath == << <<"base", "yaml">> >>

OutputPath == << <<"dist">>, <<"envoy", "yaml">> >>

NoDirOutputPath == << <<"nodir">>, <<"envoy", "yaml">> >>

RootPath == << <<"root">> >>

PluginItems == { << <<"svcA">> >>, << <<"svcB">> >> }

\* Requests: the documented options in every combination of present and
\* left out, a request without options, a null request, and one whose values
\* have the wrong type.
PluginRequests ==
    { Request(RequestOptions(root, Str(BasePath), output, folder, List(items))) :
          root \in {Absent, Str(RootPath)},
          output \in {Absent, Str(OutputPath), Str(NoDirOutputPath)},
          folder \in {Absent, Str(<<"proxy-config">>)},
          items \in SeqsUpTo(PluginItems, MaxItems) }
    \cup { Null,
           Request(Absent),
           Request(RequestOptions(Num, Absent, Str(OutputPath), Num, Str(<<"svcA">>))) }

\* A document with an alias that points back into itself (&a {self: *a}):
\* yaml.load builds a cyclic object.
CyclicYaml == [tag |-> "cyclic"]

NoFile == [tag |-> "nofile"]

\* What is at the base path: no file, text yaml.load rejects, an empty file
\* (yaml.load returns undefined), the document null, a scalar, a cyclic
\* mapping, or an Envoy document.
BaseChoices ==
    { NoFile, InvalidYaml, Absent, Null, ScalarYaml, CyclicYaml,
      MkBase("resolved", <<>>, <<>>),
      MkBase("resolved", <<Cluster("x", "t0")>>, <<Route("base", "/health")>>),
      MkBase("listeners_absent", <<Cluster("x", "t0")>>, <<>>),
      MkBase("virtual_hosts_empty", <<Cluster("x", "t0")>>, <<>>) }

PluginLayoutKinds == {"missing", "full", "two_folders"}

PluginLayouts ==
    { l \in [ServiceNames -> LayoutKinds] :
          /\ l["svcA"] \in PluginLayoutKinds
          /\ l["svcB"] \in PluginLayoutKinds
          /\ l["svcC"] = "missing" }

\* The service directories, the base file and an output directory dist/.
PluginFs(layoutOf, base) ==
    [dirs  |-> MkFs(layoutOf).dirs \cup { Dir(<< <<"dist">> >>, <<>>) },
     files |-> MkFs(layoutOf).files
                   \cup (IF base = NoFile THEN {} ELSE { File(BasePath, base) })]

\* typeof value === "string" ? value : the default already in options
StringOption(opts, key, default) ==
    IF opts.entries[key].tag = "string" THEN opts.entries[key].value ELSE default

\* The Options execute builds: defaults overwritten by the string options
\* and by an items array.
ParseOptions(req) ==
    LET opts == IF Truthy(req.options)
                THEN req.options
                ELSE RequestOptions(Absent, Absent, Absent, Absent, Absent)
    IN  [action     |-> "merge",
         items      |-> IF opts.entries["items"].tag = "list"
                        THEN opts.entries["items"].items
                        ELSE <<>>,
         rootPath   |-> StringOption(opts, "root-path", <<>>),
         output     |-> StringOption(opts, "output", <<>>),
         base       |-> StringOption(opts, "base", <<>>),
         folderName |-> StringOption(opts, "folder-name", <<"envoy">>)]

\* Mutant of CollectBase: the test of what read_yaml returned is lost.
CollectBaseUnchecked(fs, path) == ReadYaml(fs, path)

Thrown == [tag |-> "throw"]

\* collectBase(): the parsed base document; throws when read_yaml returned
\* null or nothing.
CollectBase(fs, path) ==
    LET baseConfig == ReadYaml(fs, path)
    IN  IF ~Truthy(baseConfig) THEN Thrown ELSE baseConfig

\* fs.writeFileSync succeeds when the directory of the path exists.
CanWriteFile(fs, filePath) ==
    /\ filePath # <<>>
    /\ \E d \in fs.dirs : d.path = SubSeq(filePath, 1, Len(filePath) - 1)

\* write_yaml: the file holds the dumped document; a failure is logged and
\* swallowed, the file system staying as it was.
WriteYaml(fs, dataDict, filePath) ==
    IF CanWriteFile(fs, filePath)
    THEN [fs EXCEPT !.files = { f \in @ : f.path # filePath }
                                  \cup { File(filePath, dataDict) }]
    ELSE fs

\* Mutant of WriteYamlThrows: a failed write leaves write_yaml as an exception.
WriteYamlRethrows(fs, filePath) == ~CanWriteFile(fs, filePath)

\* write_yaml wraps dump and writeFileSync in try/catch and only logs: no
\* exception leaves it.
WriteYamlThrows(fs, filePath) == FALSE

\* JSON.stringify throws a TypeError on a cyclic value.
JsonStringifyThrows(v) == v.tag = "cyclic"

JsonStringify(v) == [tag |-> "json", of |-> v]

\* Mutant of CatchResult: the message is returned without the Error prefix.
CatchResultBare(err) == [tag |-> "text", text |-> <<err>>]

\* The catch block of execute: `Error: ${error.message}`.
CatchResult(err) == [tag |-> "text", text |-> <<"Error: ", err>>]

\* What the catch block of execute does to the file system: nothing.
CatchWrites(fs, s, filePath) == fs

InitPlugin ==
    /\ request \in PluginRequests
    /\ \E layoutOf \in PluginLayouts, base \in BaseChoices :
          fsys = PluginFs(layoutOf, base)
    /\ options = Null
    /\ result = Absent
    /\ pc = "start"
    /\ error = "none"
    /\ folderPaths = <<>>
    /\ configFolderName = <<"envoy">>
    /\ baseConfigPath = <<>>
    /\ services = <<>>
    /\ fpIndex = 1
    /\ NoCompiler
    /\ NoVariant

\* execute(): the options are read and ConfigDiscover is constructed; reading
\* options of a null request throws.
ExecuteStart ==
    /\ pc = "start"
    /\ IF request = Null
       THEN /\ pc' = "thrown"
            /\ error' = "TypeError: request.options"
            /\ UNCHANGED <<options, folderPaths, baseConfigPath, configFolderName>>
       ELSE /\ options' = ParseOptions(request)
            /\ folderPaths' = options'.items
            /\ baseConfigPath' = options'.base
            /\ configFolderName' = options'.folderName
            /\ pc' = "collect"
            /\ error' = error
    /\ UNCHANGED <<fsys, services, fpIndex, request, result>>
    /\ UNCHANGED variantVars
    /\ UNCHANGED compilerVars

\* execute(): collect() has returned; collectBase() runs and the Compiler is
\* constructed over its document and the services, or collectBase throws.
ExecuteCollectBase ==
    /\ pc = "collected"
    /\ LET baseConfig == CollectBase(fsys, baseConfigPath)
       IN  IF baseConfig = Thrown
           THEN /\ pc' = "thrown"
                /\ error' = "base envoy config not found"
                /\ UNCHANGED compilerVars
           ELSE /\ store' = baseConfig
                /\ configBase' = baseConfig
                /\ serviceConfigs' = services
                /\ i' = 1
                /\ j' = 1
                /\ mergeCalls' = 0
                /\ originalRoutes' = Absent
                /\ pc' = "loop"
                /\ error' = error
    /\ UNCHANGED discoverVars
    /\ UNCHANGED pluginVars
    /\ UNCHANGED variantVars

\* execute(): build() has returned; getStore(), the test of it, write_yaml,
\* then JSON.stringify in the return statement.
ExecuteFinish ==
    /\ pc = "done"
    /\ LET compiledConfig == GetStore
       IN  IF ~Truthy(compiledConfig)
           THEN /\ pc' = "thrown"
                /\ error' = "envoy proxy configuration compilation failed"
                /\ UNCHANGED <<fsys, result>>
           ELSE IF WriteYamlThrows(fsys, options.output)
           THEN /\ pc' = "thrown"
                /\ error' = "Error: write failed"
                /\ UNCHANGED <<fsys, result>>
           ELSE /\ fsys' = WriteYaml(fsys, compiledConfig, options.output)
                /\ IF JsonStringifyThrows(compiledConfig)
                   THEN /\ pc' = "thrown"
                        /\ error' = "TypeError: Converting circular structure to JSON"
                        /\ UNCHANGED result
                   ELSE /\ pc' = "returned"
                        /\ result' = JsonStringify(compiledConfig)
                        /\ error' = error
    /\ UNCHANGED <<folderPaths, configFolderName, services, fpIndex, baseConfigPath>>
    /\ UNCHANGED <<request, options>>
    /\ UNCHANGED variantVars
    /\ UNCHANGED compilerVars

\* execute(): the catch block turns the exception into the result.
ExecuteCatch ==
    /\ pc = "thrown"
    /\ result' = CatchResult(error)
    /\ fsys' = CatchWrites(fsys, store, IF options = Null THEN <<>> ELSE options.output)
    /\ pc' = "returned"
    /\ UNCHANGED <<error, request, options>>
    /\ UNCHANGED variantVars
    /\ UNCHANGED <<folderPaths, configFolderName, services, fpIndex, baseConfigPath>>
    /\ UNCHANGED compilerVars

\* A run of execute. collectBase never hands a null document to the
\* Compiler, so build()'s return on a null store has no turn here.
NextPlugin ==
    \/ ExecuteStart
    \/ CollectStep
    \/ CollectReturn
    \/ ExecuteCollectBase
    \/ BuildMergeConfig
    \/ MergeClusterStep
    \/ MergeAddRoute
    \/ BuildDone
    \/ ExecuteFinish
    \/ ExecuteCatch

SpecPlugin == InitPlugin /\ [][NextPlugin]_vars

----------------------------------------------------------------------------
(* Properties of Compiler.build() *)

StoreClusters == store.static_resources.clusters

BaseClusters == configBase.static_resources.clusters

NoDupNames(cl) ==
    \A a, b \in 1..Len(cl) : a # b => cl[a].name # cl[b].name

NamesOf(cl) == { cl[n].name : n \in 1..Len(cl) }

\* The first entry of cl named n (what Array.prototype.find returns).
FirstWithName(cl, n) ==
    cl[CHOOSE a \in 1..Len(cl) :
          cl[a].name = n /\ \A b \in 1..Len(cl) : cl[b].name = n => a <= b]

\* The last entry of cl named n.
LastWithName(cl, n) ==
    cl[CHOOSE a \in 1..Len(cl) :
          cl[a].name = n /\ \A b \in 1..Len(cl) : cl[b].name = n => b <= a]

\* All clusters / all routes of a fragment sequence, in fragment order.
RECURSIVE AllClusters(_)
AllClusters(frags) ==
    IF frags = <<>> THEN <<>>
    ELSE Head(frags).clusters.items \o AllClusters(Tail(frags))

RECURSIVE AllRoutes(_)
AllRoutes(frags) ==
    IF frags = <<>> THEN <<>>
    ELSE Head(frags).routes.items \o AllRoutes(Tail(frags))

WellFormed(frag) == frag.clusters.tag = "list" /\ frag.routes.tag = "list"

AllWellFormed == \A k \in 1..Len(serviceConfigs) : WellFormed(serviceConfigs[k])

HasMalformed == \E k \in 1..Len(serviceConfigs) : serviceConfigs[k] = MalformedFrag

\* The path to the route slot resolves: every level down to routes is there.
PathResolves(doc) ==
    /\ doc # Null
    /\ Truthy(doc.static_resources.listeners)
    /\ AddRouteGuard(doc)
    /\ Truthy(FirstVirtualHost(doc).routes)

RoutesOf(doc) == FirstVirtualHost(doc).routes.items

Returned == pc = "done"

Terminated == pc \in {"done", "thrown"}

\* C1 as stated: for every base document, after build() the cluster list
\* holds at most one entry per cluster name.
C1_UniqueNamesAnyBase ==
    (Terminated /\ store # Null) => NoDupNames(StoreClusters)

\* C1 amended: when the base document's cluster names are pairwise distinct,
\* after build() the cluster list holds at most one entry per cluster name.
C1_UniqueNames ==
    (Terminated /\ store # Null /\ NoDupNames(BaseClusters))
        => NoDupNames(StoreClusters)

\* build() has returned over a base holding x and two fragments that both name x.
C1_Witness ==
    /\ Returned
    /\ store # Null
    /\ NoDupNames(BaseClusters)
    /\ Len(serviceConfigs) = 2
    /\ "x" \in NamesOf(BaseClusters)
    /\ \A k \in 1..2 : "x" \in NamesOf(serviceConfigs[k].clusters.items)

\* C2: last writer wins: after build() the entry found under a name that some
\* fragment carries is the last cluster of that name in fragment order.
C2_LastWriterWins ==
    (Returned /\ store # Null) =>
        \A n \in NamesOf(AllClusters(serviceConfigs)) :
            /\ n \in NamesOf(StoreClusters)
            /\ FirstWithName(StoreClusters, n)
                  = LastWithName(AllClusters(serviceConfigs), n)

\* Fragments A (x, t1) then B (x, t2) were merged and x ends with type t2.
C2_Witness ==
    /\ Returned
    /\ store # Null
    /\ Len(serviceConfigs) = 2
    /\ serviceConfigs[1].clusters = List(<<Cluster("x", "t1")>>)
    /\ serviceConfigs[2].clusters = List(<<Cluster("x", "t2")>>)
    /\ FirstWithName(StoreClusters, "x").type = "t2"

\* C3: when the base's first-virtual-host path resolves, after build() the
\* route list is the base's routes followed by the fragments' routes in
\* fragment order, so its length is r0 + r1 + ... + rN.
C3_RoutesAppended ==
    (Returned /\ PathResolves(configBase) /\ AllWellFormed) =>
        /\ RoutesOf(store) = RoutesOf(configBase) \o AllRoutes(serviceConfigs)
        /\ Len(RoutesOf(store))
              = Len(RoutesOf(configBase)) + Len(AllRoutes(serviceConfigs))

\* Two fragments with routes were merged into a base that had a route.
C3_Witness ==
    /\ Returned
    /\ PathResolves(configBase)
    /\ AllWellFormed
    /\ Len(serviceConfigs) = 2
    /\ RoutesOf(configBase) = <<Route("base", "/health")>>
    /\ serviceConfigs[1].routes.items = <<Route("svc", "/rb"), Route("svc", "/ra")>>
    /\ serviceConfigs[2].routes.items = <<Route("svc", "/ra")>>
    /\ RoutesOf(store) = <<Route("base", "/health"), Route("svc", "/rb"),
                           Route("svc", "/ra"), Route("svc", "/ra")>>

\* C4: after build() the cluster list is as long as the base's list plus the
\* number of distinct fragment cluster names the base did not hold.
C4_ClusterCount ==
    (Returned /\ store # Null) =>
        Len(StoreClusters) = Len(BaseClusters)
            + Cardinality(NamesOf(AllClusters(serviceConfigs)) \ NamesOf(BaseClusters))

\* Two fragments shared the new name y and the list grew by exactly one.
C4_Witness ==
    /\ Returned
    /\ store # Null
    /\ Len(serviceConfigs) = 2
    /\ "y" \notin NamesOf(BaseClusters)
    /\ \A k \in 1..2 : "y" \in NamesOf(serviceConfigs[k].clusters.items)
    /\ Len(StoreClusters) = Len(BaseClusters) + 1

\* C5: for a base document in which a level of the path to the route slot is
\* absent or empty, the route merge neither throws nor creates a level.
C5_UnresolvedPathIsNoOp ==
    (configBase # Null /\ ~PathResolves(configBase)) =>
        /\ error \notin {"TypeError: listeners.length", "TypeError: routes.concat"}
        /\ store.static_resources.listeners = configBase.static_resources.listeners

\* C6: with a null base, build() does not throw, never calls mergeConfig and
\* getStore() returns null.
C6_NullStoreAbandons ==
    configBase = Null =>
        /\ pc # "thrown"
        /\ error = "none"
        /\ mergeCalls = 0
        /\ GetStore = Null

\* build() has returned over a null base and two fragments.
C6_Witness ==
    /\ configBase = Null
    /\ Returned
    /\ Len(serviceConfigs) = 2

\* C7 as stated: a malformed fragment always makes build() throw.
C7_MalformedAlwaysThrows ==
    (HasMalformed /\ Terminated) => pc = "thrown"

\* C7 amended: with a non-null store, a malformed fragment makes build() throw.
C7_MalformedThrows ==
    (configBase # Null /\ HasMalformed /\ Terminated) =>
        /\ pc = "thrown"
        /\ error # "none"

\* build() threw on a malformed second fragment after merging the first.
C7_Witness ==
    /\ configBase # Null
    /\ Len(serviceConfigs) = 2
    /\ serviceConfigs[2] = MalformedFrag
    /\ pc = "thrown"
    /\ error = "TypeError: service.clusters"
    /\ mergeCalls = 2

----------------------------------------------------------------------------
(* Properties of ConfigDiscover.collect() *)

\* The fragments of a list of service directories, each asked on its own, in
\* list order, a directory without fragment leaving no element.
RECURSIVE ExpectedFragments(_)
ExpectedFragments(paths) ==
    IF paths = <<>> THEN <<>>
    ELSE LET first == FindServiceConfigs(fsys, Head(paths), configFolderName)
         IN  (IF first = Null THEN <<>> ELSE <<first>>)
             \o ExpectedFragments(Tail(paths))

\* Listing the directory fails: it does not exist or cannot be read.
ListingFails(path) ==
    ~ \E d \in fsys.dirs : d.path = path /\ d.tag = "dir"

\* The directory can be listed and holds no folder of the configured name.
LacksSubfolder(path) ==
    /\ ~ListingFails(path)
    /\ \A d \in fsys.dirs :
          (d.path = path /\ d.tag = "dir") =>
              \A n \in 1..Len(d.entries) :
                  ~(d.entries[n].name = configFolderName /\ d.entries[n].kind = "dir")

Skipped(path) == ListingFails(path) \/ LacksSubfolder(path)

Collected == pc = "collected"

\* C8: collect() returns the fragments in the order of the input list: at
\* every turn of its loop services holds the fragments of the directories
\* handled so far, in list order, and nothing for a skipped directory.
C8_CollectOrder ==
    /\ pc \in {"collect", "collected"} =>
          services = ExpectedFragments(SubSeq(folderPaths, 1, fpIndex - 1))
    /\ Collected => services = ExpectedFragments(folderPaths)

\* collect() returned two different fragments in input order, the directory
\* between them giving none.
C8_Witness ==
    /\ Collected
    /\ Len(folderPaths) = 3
    /\ FindServiceConfigs(fsys, folderPaths[2], configFolderName) = Null
    /\ Len(services) = 2
    /\ services[1] = FindServiceConfigs(fsys, folderPaths[1], configFolderName)
    /\ services[2] = FindServiceConfigs(fsys, folderPaths[3], configFolderName)
    /\ services[1] # services[2]

\* C9: a directory whose listing fails or that lacks the configured
\* subfolder gives no fragment and no error, and the directories after it
\* are still handled: the result is that of the list without such directories.
C9_SkipMissing ==
    /\ pc # "thrown"
    /\ error = "none"
    /\ Collected =>
          /\ fpIndex = Len(folderPaths) + 1
          /\ services = ExpectedFragments(SelectSeq(folderPaths, LAMBDA p : ~Skipped(p)))
          /\ Len(services) <= Cardinality({ k \in 1..Len(folderPaths) : ~Skipped(folderPaths[k]) })

\* An unlistable directory, then one without the subfolder, then one that
\* gave the only fragment.
C9_Witness ==
    /\ Collected
    /\ Len(folderPaths) = 3
    /\ ListingFails(folderPaths[1])
    /\ LacksSubfolder(folderPaths[2])
    /\ ~Skipped(folderPaths[3])
    /\ services = <<FindServiceConfigs(fsys, folderPaths[3], configFolderName)>>

\* C10: every fragment collect() holds has a route or a cluster.
C10_NoEmptyFragment ==
    \A m \in 1..Len(services) :
        /\ services[m] # Null
        /\ Len(services[m].routes.items) > 0 \/ Len(services[m].clusters.items) > 0

\* A directory whose subfolder exists gave no fragment while another gave one.
C10_Witness ==
    /\ Collected
    /\ Len(services) = 1
    /\ \E k \in 1..Len(folderPaths) :
          /\ ~Skipped(folderPaths[k])
          /\ FindServiceConfigs(fsys, folderPaths[k], configFolderName) = Null
          /\ k < Len(folderPaths)
          /\ services[1] = FindServiceConfigs(fsys, folderPaths[Len(folderPaths)], configFolderName)

----------------------------------------------------------------------------
(* Properties of getRoutes / getClusters, stated on the file system itself *)

RoutesFolder(path) == Join(Join(path, configFolderName), <<"routes">>)

ClustersFolder(path) == Join(Join(path, configFolderName), <<"clusters">>)

FolderOf(path, key) == IF key = "routes" THEN RoutesFolder(path) ELSE ClustersFolder(path)

\* The entries of a folder as the disk lists them; none when it cannot be listed.
EntriesOf(folder) ==
    IF \E d \in fsys.dirs : d.path = folder /\ d.tag = "dir"
    THEN (CHOOSE d \in fsys.dirs : d.path = folder /\ d.tag = "dir").entries
    ELSE <<>>

\* The regular file at folder/name exists, parses to a mapping and holds a
\* list under key.
HoldsList(folder, name, key) ==
    \E f \in fsys.files :
        /\ f.path = Join(folder, name)
        /\ f.content.tag = "obj"
        /\ f.content[key].tag = "list"

ListHeld(folder, name, key) ==
    (CHOOSE f \in fsys.files : f.path = Join(folder, name)).content[key].items

RECURSIVE Flatten(_)
Flatten(lists) ==
    IF lists = <<>> THEN <<>> ELSE Head(lists) \o Flatten(Tail(lists))

\* The lists of the valid fragment files of a folder: regular files the scan
\* opens that parse and hold a list under key.
ValidLists(folder, key) ==
    LET valid == SelectSeq(EntriesOf(folder),
                           LAMBDA e : /\ e.kind = "file"
                                      /\ IncludesYaml(e.name)
                                      /\ HoldsList(folder, e.name, key))
    IN  [n \in 1..Len(valid) |-> ListHeld(folder, valid[n].name, key)]

\* A fragment file the scan opens and that gives nothing under key.
UnusableFile(folder, e, key) ==
    e.kind = "file" /\ IncludesYaml(e.name) /\ ~HoldsList(folder, e.name, key)

Count(seq, v) == Cardinality({ n \in 1..Len(seq) : seq[n] = v })

SameBag(a, b) ==
    /\ Len(a) = Len(b)
    /\ \A n \in 1..Len(a) : Count(a, a[n]) = Count(b, a[n])

\* The directory has the configured subfolder and a valid file of it holds
\* an entry.
Emits(path) ==
    /\ ~Skipped(path)
    /\ \/ Flatten(ValidLists(RoutesFolder(path), "routes")) # <<>>
       \/ Flatten(ValidLists(ClustersFolder(path), "clusters")) # <<>>

\* The positions of folderPaths, among the first n, that give a fragment.
EmittingUpTo(n) ==
    SelectSeq([k \in 1..n |-> k], LAMBDA k : Emits(folderPaths[k]))

\* C11: a fragment file that cannot be read or parsed, or holds no list under
\* the expected key, contributes no entry and does not end the scan: the
\* routes and clusters of every fragment are, entry for entry, those of the
\* valid files of its folder, and discovery does not throw.
C11_BadFileContributesNothing ==
    /\ pc # "thrown"
    /\ error = "none"
    /\ pc \in {"collect", "collected"} =>
          LET ks == EmittingUpTo(fpIndex - 1)
          IN  /\ Len(services) = Len(ks)
              /\ \A m \in 1..Len(ks) :
                    /\ SameBag(services[m].routes.items,
                               Flatten(ValidLists(RoutesFolder(folderPaths[ks[m]]), "routes")))
                    /\ SameBag(services[m].clusters.items,
                               Flatten(ValidLists(ClustersFolder(folderPaths[ks[m]]), "clusters")))

\* A fragment whose routes folder lists an unusable file before a valid one:
\* the entries of the valid file are in the fragment.
C11_Witness ==
    /\ Collected
    /\ \E m \in 1..Len(services) :
          LET folder == RoutesFolder(folderPaths[EmittingUpTo(Len(folderPaths))[m]])
              es     == EntriesOf(folder)
          IN  \E a, b \in 1..Len(es) :
                 /\ a < b
                 /\ UnusableFile(folder, es[a], "routes")
                 /\ es[b].kind = "file" /\ IncludesYaml(es[b].name)
                 /\ HoldsList(folder, es[b].name, "routes")
                 /\ ListHeld(folder, es[b].name, "routes") # <<>>
                 /\ \A n \in 1..Len(ListHeld(folder, es[b].name, "routes")) :
                        Count(services[m].routes.items,
                              ListHeld(folder, es[b].name, "routes")[n]) > 0

\* A name whose last extension is yaml: "a.yaml", not "old.yaml.bak".
EndsWithYaml(name) == Len(name) >= 2 /\ name[Len(name)] = "yaml"

\* The lists of the valid files of a folder whose name ends in .yaml.
SuffixLists(folder, key) ==
    LET valid == SelectSeq(EntriesOf(folder),
                           LAMBDA e : /\ e.kind = "file"
                                      /\ EndsWithYaml(e.name)
                                      /\ HoldsList(folder, e.name, key))
    IN  [n \in 1..Len(valid) |-> ListHeld(folder, valid[n].name, key)]

\* The fragment of a directory when only files ending in .yaml are read.
SuffixFragment(path) ==
    LET c == Flatten(SuffixLists(ClustersFolder(path), "clusters"))
        r == Flatten(SuffixLists(RoutesFolder(path), "routes"))
    IN  IF Skipped(path) \/ (c = <<>> /\ r = <<>>)
        THEN Null
        ELSE ServiceConfg(List(c), List(r))

RECURSIVE SuffixFragments(_)
SuffixFragments(paths) ==
    IF paths = <<>> THEN <<>>
    ELSE (IF SuffixFragment(Head(paths)) = Null THEN <<>> ELSE <<SuffixFragment(Head(paths))>>)
         \o SuffixFragments(Tail(paths))

\* C19: inside routes/ and clusters/ discovery reads exactly the files whose
\* name ends in .yaml: the fragments are those made of the lists of these
\* files and of no other file.
C19_ReadsExactlyYamlSuffix ==
    Collected => services = SuffixFragments(folderPaths)

\* C20: the routes, and the clusters, of a fragment are the lists of the
\* fragment files of its folder put end to end in listing order, each list
\* in its own order, nothing sorted and nothing dropped.
C20_ConcatInListingOrder ==
    pc \in {"collect", "collected"} =>
        LET ks == EmittingUpTo(fpIndex - 1)
        IN  /\ Len(services) = Len(ks)
            /\ \A m \in 1..Len(ks) :
                  /\ services[m].routes.items =
                        Flatten(ValidLists(RoutesFolder(folderPaths[ks[m]]), "routes"))
                  /\ services[m].clusters.items =
                        Flatten(ValidLists(ClustersFolder(folderPaths[ks[m]]), "clusters"))

\* b.yaml is listed before a.yaml and both hold /r2: the fragment has the
\* entry of b.yaml first, a.yaml's three entries in file order after it, and
\* /r2 twice.
C20_Witness ==
    /\ Collected
    /\ \E m \in 1..Len(services) :
          LET r == services[m].routes.items
          IN  /\ Len(r) >= 4
              /\ r[1].prefix = "/r2"
              /\ r[2].prefix = "/r1"
              /\ r[3].prefix = "/r3"
              /\ r[4] = r[1]

----------------------------------------------------------------------------
(* Further properties of Compiler.build() *)

\* C16: build() does not modify the service fragments the constructor was
\* given: no step of it changes serviceConfigs.
C16_FragmentsUntouched == [][serviceConfigs' = serviceConfigs]_vars

\* build() returned after merging the clusters and routes of two fragments
\* into the store.
C16_Witness ==
    /\ Returned
    /\ Len(serviceConfigs) = 2
    /\ mergeCalls = 2
    /\ AllWellFormed
    /\ PathResolves(store)
    /\ \A k \in 1..2 :
          /\ serviceConfigs[k].clusters.items # <<>>
          /\ serviceConfigs[k].routes.items # <<>>
    /\ StoreClusters # BaseClusters
    /\ RoutesOf(store) = RoutesOf(configBase) \o AllRoutes(serviceConfigs)

\* C18: when a fragment's cluster is merged, an entry of the same name is
\* replaced at its own index and no other entry moves; failing such an entry
\* the cluster is appended at the end.
C18_ReplaceInPlaceOrAppend ==
    [][(pc = "merge" /\ j' = j + 1) =>
          LET c    == serviceConfigs[i].clusters.items[j]
              old  == store.static_resources.clusters
              new  == store'.static_resources.clusters
              hits == { n \in 1..Len(old) : old[n].name = c.name }
          IN  IF hits = {}
              THEN /\ Len(new) = Len(old) + 1
                   /\ new[Len(new)] = c
                   /\ \A n \in 1..Len(old) : new[n] = old[n]
              ELSE /\ Len(new) = Len(old)
                   /\ \E k \in hits :
                         /\ new[k] = c
                         /\ \A n \in 1..Len(old) : n # k => new[n] = old[n]]_vars

\* The base holds cluster x; a first fragment brings y and a second one x
\* with another type: the list ends as the new x followed by y.
C18_Witness ==
    /\ Returned
    /\ configBase # Null
    /\ BaseClusters = <<Cluster("x", "t0")>>
    /\ Len(serviceConfigs) = 2
    /\ serviceConfigs[1].clusters = List(<<Cluster("y", "t1")>>)
    /\ serviceConfigs[2].clusters = List(<<Cluster("x", "t2")>>)
    /\ StoreClusters = <<Cluster("x", "t2"), Cluster("y", "t1")>>

----------------------------------------------------------------------------
(* Properties of collectBase() and of a plugin run *)

BaseFileExists == \E f \in fsys.files : f.path = baseConfigPath

BaseContent == (CHOOSE f \in fsys.files : f.path = baseConfigPath).content

\* The base file is missing, cannot be parsed, or parses to nothing.
BaseUnusable ==
    \/ ~BaseFileExists
    \/ BaseContent = InvalidYaml
    \/ BaseContent = Absent
    \/ BaseContent = Null

BaseNotFound == "base envoy config not found"

BaseMissing ==
    /\ options # Null
    /\ options.base # <<>>
    /\ ~ \E f \in fsys.files : f.path = options.base

\* C13: in a run whose base path does not exist the base-load failure is
\* raised and no service directory is scanned: collect()'s loop has made no
\* turn, and the run ends with the base-load failure as its result.
C13_MissingBaseScansNothing ==
    BaseMissing =>
        /\ fpIndex = 1
        /\ pc = "returned" => result = CatchResult(BaseNotFound)

\* C14: execute never throws: every exception, whichever step raised it, is
\* taken by the catch block, and the run then returns a result whose text is
\* "Error: " followed by the message of the exception.
C14_ExecuteNeverThrows ==
    /\ pc = "thrown" => ENABLED ExecuteCatch
    /\ pc = "returned" => result # Absent
    /\ (pc = "returned" /\ error # "none") =>
          /\ result.tag = "text"
          /\ result.text[1] = "Error: "
          /\ result.text = <<"Error: ", error>>
    /\ (pc = "returned" /\ error = "none") => result.tag = "json"

\* A run whose merge threw on a base without listeners returned the error.
C14_Witness ==
    /\ pc = "returned"
    /\ error = "TypeError: listeners.length"
    /\ mergeCalls > 0
    /\ result.text = <<"Error: ", error>>

OutputPaths == { OutputPath, NoDirOutputPath }

NothingWritten == \A f \in fsys.files : f.path \notin OutputPaths

\* C15: a run returns the serialized merged document or an error text, and
\* when it returns an error nothing has been written to the output path.
C15_ErrorMeansNothingWritten ==
    pc = "returned" =>
        /\ result.tag \in {"json", "text"}
        /\ result.tag = "json" => result.of = store
        /\ result.tag = "text" => NothingWritten

\* path.join(rootPath, item)
Prefixed(root, item) == root \o item

\* C17: root-path is the prefix under which the items are resolved: the
\* directories collect() scans are the items prefixed with root-path.
C17_RootPathPrefixesItems ==
    (options # Null /\ pc \in {"collect", "collected"}) =>
        \A k \in 1..(fpIndex - 1) :
            folderPaths[k] = Prefixed(options.rootPath, options.items[k])

----------------------------------------------------------------------------
(* Properties of build() step by step *)

SlotsEmptied(doc) ==
    LET noClusters == [doc EXCEPT !.static_resources.clusters = <<>>]
    IN  IF PathResolves(doc)
        THEN [noClusters EXCEPT
                 !.static_resources.listeners.items[1].filter_chains.items[1]
                  .filters.items[1].typed_config.route_config.virtual_hosts
                  .items[1].routes = List(<<>>)]
        ELSE noClusters

\* C25: build() changes the cluster list and the route list of the first
\* virtual host of the first filter of the first filter chain of the first
\* listener, and nothing else: apart from these two slots the store is, at
\* every step, the base document it was given.
C25_OnlyTwoSlotsChange ==
    store # Null => SlotsEmptied(store) = SlotsEmptied(configBase)

\* build() returned having changed both slots of a base that has a second
\* listener, filter chain, filter and virtual host.
C25_Witness ==
    /\ Returned
    /\ PathResolves(configBase)
    /\ StoreClusters # BaseClusters
    /\ RoutesOf(store) # RoutesOf(configBase)
    /\ Len(store.static_resources.listeners.items) = 2
    /\ Len(FirstFilter(store).typed_config.route_config.virtual_hosts.items) = 2

\* The replace-or-append rule, stated on its own: the first entry named like
\* c gives way to c, and failing one c goes to the end.
Upsert(cl, c) ==
    IF \E n \in 1..Len(cl) : cl[n].name = c.name
    THEN [cl EXCEPT ![CHOOSE n \in 1..Len(cl) :
                          /\ cl[n].name = c.name
                          /\ \A m \in 1..Len(cl) : cl[m].name = c.name => n <= m] = c]
    ELSE Append(cl, c)

RECURSIVE UpsertAll(_, _)
UpsertAll(cl, cs) ==
    IF cs = <<>> THEN cl ELSE UpsertAll(Upsert(cl, Head(cs)), Tail(cs))

\* C26: when the virtual-host path of the base does not resolve, build()
\* still merges the clusters of every fragment by the replace-or-append rule
\* and only the routes are dropped.
C26_UnresolvedStillMergesClusters ==
    (Terminated /\ configBase # Null /\ ~PathResolves(configBase) /\ AllWellFormed) =>
        /\ StoreClusters = UpsertAll(BaseClusters, AllClusters(serviceConfigs))
        /\ store.static_resources.listeners = configBase.static_resources.listeners

\* C27: over a base whose cluster names are pairwise distinct, the cluster
\* list has pairwise distinct names after every single insertion, also when
\* a fragment lists a name twice (the entry under the name is then the later
\* one), and no name that was in the list leaves it.
C27_DistinctAtEveryInsertion ==
    [][(store # Null /\ NoDupNames(BaseClusters)) =>
          /\ NoDupNames(store'.static_resources.clusters)
          /\ NamesOf(StoreClusters) \subseteq NamesOf(store'.static_resources.clusters)
          /\ (pc = "merge" /\ j' = j + 1) =>
                \A n \in 1..Len(store'.static_resources.clusters) :
                    store'.static_resources.clusters[n].name
                            = serviceConfigs[i].clusters.items[j].name
                        => store'.static_resources.clusters[n]
                            = serviceConfigs[i].clusters.items[j]]_vars

\* Both entries of a fragment that lists x twice have been inserted: the list
\* holds x once, as the fragment's later entry.
C27_Witness ==
    /\ pc = "merge"
    /\ j = 3
    /\ serviceConfigs[i].clusters.items[1].name = serviceConfigs[i].clusters.items[2].name
    /\ serviceConfigs[i].clusters.items[1] # serviceConfigs[i].clusters.items[2]
    /\ NoDupNames(BaseClusters)
    /\ NoDupNames(StoreClusters)
    /\ \E n \in 1..Len(StoreClusters) : StoreClusters[n] = serviceConfigs[i].clusters.items[2]

\* What concat has put in the route slot for a sequence of fragments.
RECURSIVE AllConcatArgs(_)
AllConcatArgs(frags) ==
    IF frags = <<>> THEN <<>>
    ELSE ConcatArg(Head(frags).routes) \o AllConcatArgs(Tail(frags))

\* The clusters of the fragment build() was at that its loop had inserted.
InsertedOfCurrent ==
    IF serviceConfigs[i].clusters.tag = "list"
    THEN SubSeq(serviceConfigs[i].clusters.items, 1, j - 1)
    ELSE <<>>

----------------------------------------------------------------------------
(* Writing the output *)

\* The output path is empty or its directory does not exist: writeFileSync
\* fails.
OutputUnwritable ==
    \/ options.output = <<>>
    \/ ~ \E d \in fsys.dirs :
            d.path = SubSeq(options.output, 1, Len(options.output) - 1)

\* C29: a failure to write the output file stays inside write_yaml: the run
\* returns the serialized merged document, not an error, and there is no
\* file at the output path.
C29_WriteFailureSwallowed ==
    [][(pc = "done" /\ Truthy(store) /\ ~JsonStringifyThrows(store) /\ OutputUnwritable) =>
          /\ pc' = "returned"
          /\ error' = "none"
          /\ result' = JsonStringify(store)
          /\ \A f \in fsys'.files : f.path # options.output]_vars

\* A run over an output path in a missing directory returned the merged
\* document of a base and a fragment, and wrote nothing.
C29_Witness ==
    /\ pc = "returned"
    /\ options # Null
    /\ options.output = NoDirOutputPath
    /\ result = JsonStringify(store)
    /\ mergeCalls > 0
    /\ store # configBase
    /\ NothingWritten

----------------------------------------------------------------------------
(* The route slot *)

----------------------------------------------------------------------------
(* The rebuilding variant, run beside the in-place compiler *)

VariantReturned == vpc = "done"

VariantTerminated == vpc \in {"done", "thrown"}

VariantClusters == vStore.static_resources.clusters

\* C23: in the rebuilding variant, after build() over a base whose path to
\* the first virtual host resolves, the route list of the returned document
\* is the base's routes followed by the routes of every fragment in order,
\* each once.
C23_VariantRoutesAppended ==
    (VariantReturned /\ PathResolves(configBase) /\ AllWellFormed) =>
        RoutesOf(vStore) = RoutesOf(configBase) \o AllConcatArgs(serviceConfigs)

\* C24: in the rebuilding variant, after build() the base document object
\* passed to the constructor, its cluster list included, equals what it was
\* when passed.
C24_VariantBaseUnchanged ==
    VariantReturned => vBase = configBase

\* C30: run on the same base document and the same well-formed fragments,
\* the in-place compiler and the rebuilding variant hold equal cluster lists
\* whenever both have completed the same number of merge steps, and when
\* both builds have ended.
C30_SideBySideClustersEqual ==
    (AllWellFormed /\ configBase # Null) =>
        /\ (pc \in {"loop", "done"} /\ vpc \in {"loop", "done"} /\ i = vi) =>
                StoreClusters = VariantClusters
        /\ (Terminated /\ VariantTerminated) => StoreClusters = VariantClusters

====
